---- MODULE Spec2Model ----
(***************************************************************************)
(* Conway's Game of Life on an 8x8 LED matrix (main.ino).                  *)
(*                                                                         *)
(* The main program (setup, then loop forever) is modelled statement by    *)
(* statement, so that the two interrupt handlers togglePause and setStep   *)
(* can fire between any two statements of loop, updateWorld and dispWorld. *)
(* countNeighbors and the three-case rule of updateWorld are operators     *)
(* computed the way the code computes them.                                *)
(***************************************************************************)
EXTENDS Integers, Sequences, FiniteSets, TLC

\* ------------------------------------------------------------------------
\* Program constants
\* ------------------------------------------------------------------------
ROWS == 8
COLS == 8
\* loop(): "if (time - lastTime >= 1000)"
PERIOD == 1000
\* loop(): "delay(5)"
DELAY_MS == 5
\* "unsigned long" is 32 bits wide; a value is kept as <<high, low>> 16-bit halves
LIMB == 2 ^ 16

\* ------------------------------------------------------------------------
\* Bounds of the model
\* ------------------------------------------------------------------------
\* number of delay(5) calls, i.e. completed loop() iterations
MaxIter == 3
\* number of togglePause firings
MaxToggles == 3
\* number of successive updateWorld() calls on one input grid
MaxGen == 4

RowIdx == 0 .. (ROWS - 1)
ColIdx == 0 .. (COLS - 1)
Grid == [RowIdx -> [ColIdx -> BOOLEAN]]

\* "bool world[ROWS][COLS] = { false }" / "bool nextWorld[ROWS][COLS] = { false }"
AllDead == [i \in RowIdx |-> [j \in ColIdx |-> FALSE]]

\* the grid whose live cells are exactly the coordinates in S
GridOf(S) == [i \in RowIdx |-> [j \in ColIdx |-> <<i, j>> \in S]]

\* ------------------------------------------------------------------------
\* unsigned long arithmetic (32 bits, wrapping)
\* ------------------------------------------------------------------------
U32(hi, lo) == <<hi, lo>>
ULong == (0 .. (LIMB - 1)) \X (0 .. (LIMB - 1))

\* a + d, d < 2^16, modulo 2^32
Add32(a, d) ==
    LET lo == a[2] + d
    IN  U32((a[1] + (lo \div LIMB)) % LIMB, lo % LIMB)

\* a - b modulo 2^32
Sub32(a, b) ==
    LET borrow == IF a[2] < b[2] THEN 1 ELSE 0
    IN  U32((a[1] - b[1] - borrow) % LIMB, (a[2] - b[2]) % LIMB)

\* a >= n for a small constant n < 2^16
Geq32(a, n) == a[1] > 0 \/ a[2] >= n

\* variant: "time - lastTime > 1000"
TickDue_strict(t, last) == Geq32(Sub32(t, last), PERIOD + 1)

\* a >= b
Geq32x(a, b) == a[1] > b[1] \/ (a[1] = b[1] /\ a[2] >= b[2])

\* variant: "time >= lastTime + 1000"
TickDue_sum(t, last) == Geq32x(t, Add32(last, PERIOD))

\* "time - lastTime >= 1000"
TickDue(t, last) == Geq32(Sub32(t, last), PERIOD)

\* ------------------------------------------------------------------------
\* countNeighbors (lines 109-129)
\* ------------------------------------------------------------------------
\* variant: a negative row index clamped to 0 instead of wrapped
WrapRow_clamped(i) == IF i >= 0 THEN i % ROWS ELSE 0

\* "int y = i >= 0 ? i % ROWS : ROWS - 1;"
WrapRow(i) == IF i >= 0 THEN i % ROWS ELSE ROWS - 1
\* "int x = j >= 0 ? j % COLS : COLS - 1;"
WrapCol(j) == IF j >= 0 THEN j % COLS ELSE COLS - 1

\* variant: without the "continue" of lines 118-119
Visited_withSelf(r, c) ==
    [k \in 1 .. 9 |-> <<r - 1 + ((k - 1) \div 3), c - 1 + ((k - 1) % 3)>>]

\* the (i, j) pairs the two for loops visit, in order, the "continue" applied
Visited(r, c) ==
    LET all == [k \in 1 .. 9 |-> <<r - 1 + ((k - 1) \div 3), c - 1 + ((k - 1) % 3)>>]
    IN  SelectSeq(all, LAMBDA p : ~(p[1] = r /\ p[2] = c))

\* the world[y][x] indices read by countNeighbors(r, c), in order
ReadIndices(r, c) ==
    LET v == Visited(r, c)
    IN  [k \in 1 .. Len(v) |-> <<WrapRow(v[k][1]), WrapCol(v[k][2])>>]

\* "neighbors += world[y][x]" over the indices read
RECURSIVE SumCells(_, _)
SumCells(w, idx) ==
    IF idx = <<>> THEN 0
    ELSE (IF w[Head(idx)[1]][Head(idx)[2]] THEN 1 ELSE 0) + SumCells(w, Tail(idx))

countNeighbors(w, r, c) == SumCells(w, ReadIndices(r, c))

\* ------------------------------------------------------------------------
\* the switch of updateWorld (lines 140-150)
\* ------------------------------------------------------------------------
\* variant: case 3 copies the cell like case 2 (no birth)
rule_noBirth(alive, n) ==
    CASE n = 2 -> alive
      [] n = 3 -> alive
      [] OTHER -> FALSE

rule(alive, n) ==
    CASE n = 2 -> alive
      [] n = 3 -> TRUE
      [] OTHER -> FALSE

\* ------------------------------------------------------------------------
\* State
\* ------------------------------------------------------------------------
VARIABLES
    world,      \* bool world[ROWS][COLS]
    nextWorld,  \* updateWorld's local nextWorld
    lastTime,   \* unsigned long lastTime
    paused,     \* volatile bool paused
    step,       \* volatile bool step
    rowPin,     \* level of the pins row[0..7]
    colPin,     \* level of the pins col[0..7]
    clock,      \* millis()
    time,       \* loop's local "time"
    neighbors,  \* value returned by the last countNeighbors call
    pc,         \* position of the main program
    r, c,       \* loop indices of the running for loops
    attached,   \* attachInterrupt has been called for both handlers
    iter,       \* loop() iterations (updateWorld() calls) counted against a bound
    toggles,    \* togglePause firings so far
    mode,       \* the flags as this loop() iteration found them ("running",
                \* "frozen": paused, no step pending, "step": paused, step
                \* pending), or where an interrupt has struck since ("irq_...")
    world0,     \* world at the start of the current loop() iteration
    lastTime0,  \* lastTime at the start of the current loop() iteration
    scan,       \* what the pins have shown: the LEDs lit and the rows activated
                \* by the current dispWorld() call, and the dispWorld() calls
                \* of the current loop() iteration
    since       \* milliseconds millis() has really advanced since the sample
                \* kept in lastTime (not wrapped)

vars == <<world, nextWorld, lastTime, paused, step, rowPin, colPin, clock, time,
          neighbors, pc, r, c, attached, iter, toggles, mode, world0, lastTime0,
          scan, since>>

\* everything the program itself owns
progVars == <<world, nextWorld, lastTime, paused, step, rowPin, colPin>>

\* ------------------------------------------------------------------------
\* Grids the random fill of setup() is drawn from
\* ------------------------------------------------------------------------
Shift(S, dr, dc) == {<<(p[1] + dr) % ROWS, (p[2] + dc) % COLS>> : p \in S}
GliderCells == {<<0, 1>>, <<1, 2>>, <<2, 0>>, <<2, 1>>, <<2, 2>>}
BlockCells == {<<0, 0>>, <<0, 1>>, <<1, 0>>, <<1, 1>>}
ScatterCells == {p \in RowIdx \X ColIdx : (p[1] * p[1] + 3 * p[2] + p[1] * p[2]) % 5 < 2}

InitWorlds ==
    { GridOf(GliderCells), GridOf(Shift(GliderCells, 6, 6)),
      GridOf(Shift(BlockCells, 7, 7)), GridOf(ScatterCells) }

\* how far millis() can have moved on between two samples of loop()
Deltas == {DELAY_MS, PERIOD - DELAY_MS, PERIOD}

PinLevel == {"INPUT", "LOW", "HIGH"}

\* the LEDs that are on: row line HIGH and column line LOW (lines 42, 84)
Lit(rp, cp) == {i \in RowIdx : rp[i] = "HIGH"} \X {j \in ColIdx : cp[j] = "LOW"}

\* nothing shown yet
NoScan == [lit |-> {}, rows |-> <<>>, calls |-> 0]

\* ------------------------------------------------------------------------
\* Initial state: the globals as initialised (lines 20-26), before setup()
\* ------------------------------------------------------------------------
Init ==
    /\ world = AllDead
    /\ nextWorld = AllDead
    /\ lastTime = U32(0, 0)
    /\ paused = FALSE
    /\ step = FALSE
    /\ rowPin = [i \in RowIdx |-> "INPUT"]
    /\ colPin = [j \in ColIdx |-> "INPUT"]
    /\ clock = U32(0, 0)
    /\ time = U32(0, 0)
    /\ neighbors = 0
    /\ pc = "setup_attach"
    /\ r = 0
    /\ c = 0
    /\ attached = FALSE
    /\ iter = 0
    /\ toggles = 0
    /\ mode = "setup"
    /\ world0 = AllDead
    /\ lastTime0 = U32(0, 0)
    /\ scan = NoScan
    /\ since = 0

\* ------------------------------------------------------------------------
\* setup() (lines 28-54)
\* ------------------------------------------------------------------------
\* lines 31-35: pinMode of the two buttons, attachInterrupt of both handlers
SetupAttach ==
    /\ pc = "setup_attach"
    /\ attached' = TRUE
    /\ pc' = "setup_pins"
    /\ r' = 0
    /\ UNCHANGED <<world, nextWorld, lastTime, paused, step, rowPin, colPin, clock,
                   time, neighbors, c, iter, toggles, mode, world0, lastTime0, scan, since>>

\* lines 38-46, one iteration i = r of the for loop
SetupPin ==
    /\ pc = "setup_pins"
    /\ colPin' = [colPin EXCEPT ![r] = "HIGH"]
    /\ rowPin' = [rowPin EXCEPT ![r] = "LOW"]
    /\ IF r + 1 < 8
         THEN r' = r + 1 /\ pc' = pc
         ELSE r' = 0 /\ pc' = "setup_fill"
    /\ UNCHANGED <<world, nextWorld, lastTime, paused, step, clock, time, neighbors,
                   c, attached, iter, toggles, mode, world0, lastTime0, scan, since>>

\* lines 50-53: world[i][j] = (bool)(random(2)) for every cell
SetupFill ==
    /\ pc = "setup_fill"
    /\ \E w \in InitWorlds : world' = w
    /\ pc' = "loop"
    /\ UNCHANGED <<nextWorld, lastTime, paused, step, rowPin, colPin, clock, time,
                   neighbors, r, c, attached, iter, toggles, mode, world0, lastTime0, scan, since>>

\* ------------------------------------------------------------------------
\* loop() (lines 56-66)
\* ------------------------------------------------------------------------
\* line 58: unsigned long time = millis();
LoopSample ==
    /\ pc = "loop"
    /\ time' = clock
    /\ pc' = "check"
    /\ mode' = IF ~paused THEN "running" ELSE IF step THEN "step" ELSE "frozen"
    /\ world0' = world
    /\ lastTime0' = lastTime
    /\ scan' = [scan EXCEPT !.calls = 0]
    /\ UNCHANGED <<world, nextWorld, lastTime, paused, step, rowPin, colPin, clock,
                   neighbors, r, c, attached, iter, toggles, since>>

\* variant: line 61 (lastTime = time) left out
LoopTick_noReset ==
    /\ pc = "check"
    /\ TickDue(time, lastTime)
    /\ nextWorld' = AllDead
    /\ r' = 0
    /\ c' = 0
    /\ pc' = "update_compute"
    /\ UNCHANGED <<world, lastTime, paused, step, rowPin, colPin, clock, time, neighbors,
                   attached, iter, toggles, mode, world0, lastTime0, scan, since>>

\* lines 60-62: the tick is due; lastTime = time; updateWorld() is entered and
\* its local nextWorld initialised (line 135)
LoopTick ==
    /\ pc = "check"
    /\ TickDue(time, lastTime)
    /\ lastTime' = time
    /\ since' = 0
    /\ nextWorld' = AllDead
    /\ r' = 0
    /\ c' = 0
    /\ pc' = "update_compute"
    /\ UNCHANGED <<world, paused, step, rowPin, colPin, clock, time, neighbors,
                   attached, iter, toggles, mode, world0, lastTime0, scan>>

\* variant: dispWorld() called only from inside the if of line 60
LoopSkip_noDisp ==
    /\ pc = "check"
    /\ ~TickDue(time, lastTime)
    /\ r' = 0
    /\ c' = 0
    /\ pc' = "delay"
    /\ UNCHANGED <<world, nextWorld, lastTime, paused, step, rowPin, colPin, clock,
                   time, neighbors, attached, iter, toggles, mode, world0, lastTime0,
                   scan, since>>

\* variant: a busy wait on the sampled time, "while (time - lastTime < 1000) {}"
LoopSkip_spin ==
    /\ pc = "check"
    /\ ~TickDue(time, lastTime)
    /\ UNCHANGED vars

\* line 60, condition false: straight to dispWorld() (line 64)
LoopSkip ==
    /\ pc = "check"
    /\ ~TickDue(time, lastTime)
    /\ r' = 0
    /\ c' = 0
    /\ pc' = "disp_row_on"
    /\ UNCHANGED <<world, nextWorld, lastTime, paused, step, rowPin, colPin, clock,
                   time, neighbors, attached, iter, toggles, mode, world0, lastTime0,
                   scan, since>>

\* line 65: delay(5); the iteration ends, millis() has moved on
Delay ==
    /\ pc = "delay"
    /\ iter < MaxIter
    /\ \E d \in Deltas :
          /\ clock' = Add32(clock, d)
          /\ since' = since + d
    /\ iter' = iter + 1
    /\ pc' = "loop"
    /\ UNCHANGED <<world, nextWorld, lastTime, paused, step, rowPin, colPin, time,
                   neighbors, r, c, attached, toggles, mode, world0, lastTime0, scan>>

\* ------------------------------------------------------------------------
\* updateWorld() (lines 131-158)
\* ------------------------------------------------------------------------
\* variant: no scratch buffer, the new state is written straight into world
UpdateCompute_inPlace ==
    /\ pc = "update_compute"
    /\ neighbors' = countNeighbors(world, r, c)
    /\ world' = [world EXCEPT ![r][c] = rule(world[r][c], neighbors')]
    /\ nextWorld' = [nextWorld EXCEPT ![r][c] = rule(world[r][c], neighbors')]
    /\ IF c + 1 < COLS
         THEN r' = r /\ c' = c + 1 /\ pc' = pc
         ELSE IF r + 1 < ROWS
                THEN r' = r + 1 /\ c' = 0 /\ pc' = pc
                ELSE r' = 0 /\ c' = 0 /\ pc' = "update_commit"
    /\ UNCHANGED <<lastTime, paused, step, rowPin, colPin, clock, time,
                   attached, iter, toggles, mode, world0, lastTime0, scan, since>>

\* lines 137-152, one cell (r, c): nextWorld[r][c] from countNeighbors(r, c)
UpdateCompute ==
    /\ pc = "update_compute"
    /\ neighbors' = countNeighbors(world, r, c)
    /\ nextWorld' = [nextWorld EXCEPT ![r][c] = rule(world[r][c], neighbors')]
    /\ IF c + 1 < COLS
         THEN r' = r /\ c' = c + 1 /\ pc' = pc
         ELSE IF r + 1 < ROWS
                THEN r' = r + 1 /\ c' = 0 /\ pc' = pc
                ELSE r' = 0 /\ c' = 0 /\ pc' = "update_commit"
    /\ UNCHANGED <<world, lastTime, paused, step, rowPin, colPin, clock, time,
                   attached, iter, toggles, mode, world0, lastTime0, scan, since>>

\* variant: the commit loop stops one row early ("r < ROWS - 1")
UpdateCommit_partial ==
    /\ pc = "update_commit"
    /\ world' = [world EXCEPT ![r][c] = nextWorld[r][c]]
    /\ IF c + 1 < COLS
         THEN r' = r /\ c' = c + 1 /\ pc' = pc
         ELSE IF r + 1 < ROWS - 1
                THEN r' = r + 1 /\ c' = 0 /\ pc' = pc
                ELSE r' = 0 /\ c' = 0 /\ pc' = "disp_row_on"
    /\ UNCHANGED <<nextWorld, lastTime, paused, step, rowPin, colPin, clock, time,
                   neighbors, attached, iter, toggles, mode, world0, lastTime0,
                   scan, since>>

\* lines 155-157, one cell (r, c): world[r][c] = nextWorld[r][c]; after the
\* last cell updateWorld returns and loop() goes on to dispWorld() (line 64)
UpdateCommit ==
    /\ pc = "update_commit"
    /\ world' = [world EXCEPT ![r][c] = nextWorld[r][c]]
    /\ IF c + 1 < COLS
         THEN r' = r /\ c' = c + 1 /\ pc' = pc
         ELSE IF r + 1 < ROWS
                THEN r' = r + 1 /\ c' = 0 /\ pc' = pc
                ELSE r' = 0 /\ c' = 0 /\ pc' = "disp_row_on"
    /\ UNCHANGED <<nextWorld, lastTime, paused, step, rowPin, colPin, clock, time,
                   neighbors, attached, iter, toggles, mode, world0, lastTime0, scan, since>>

\* ------------------------------------------------------------------------
\* dispWorld() (lines 86-101)
\* ------------------------------------------------------------------------
\* the record of what the pins show, after a write that leaves them at rp, cp
Shown(sc, rp, cp) == [sc EXCEPT !.lit = @ \cup Lit(rp, cp)]

\* line 90: digitalWrite(row[r], HIGH); with r = 0 this is the first statement
\* of a dispWorld() call
DispRowOn ==
    /\ pc = "disp_row_on"
    /\ rowPin' = [rowPin EXCEPT ![r] = "HIGH"]
    /\ c' = 0
    /\ pc' = "disp_col_low"
    /\ scan' = LET sc == IF r = 0
                           THEN [lit |-> {}, rows |-> <<>>, calls |-> scan.calls + 1]
                           ELSE scan
               IN  Shown([sc EXCEPT !.rows = Append(@, r)], rowPin', colPin)
    /\ UNCHANGED <<world, nextWorld, lastTime, paused, step, colPin, clock, time,
                   neighbors, r, attached, iter, toggles, mode, world0, lastTime0, since>>

\* lines 93-94: if (world[r][c]) digitalWrite(col[c], LOW);
DispColLow ==
    /\ pc = "disp_col_low"
    /\ colPin' = IF world[r][c] THEN [colPin EXCEPT ![c] = "LOW"] ELSE colPin
    /\ pc' = "disp_col_high"
    /\ scan' = Shown(scan, rowPin, colPin')
    /\ UNCHANGED <<world, nextWorld, lastTime, paused, step, rowPin, clock, time,
                   neighbors, r, c, attached, iter, toggles, mode, world0, lastTime0, since>>

\* variant: line 96 left out, the column is never driven back HIGH
DispColHigh_skip ==
    /\ pc = "disp_col_high"
    /\ IF c + 1 < COLS
         THEN c' = c + 1 /\ pc' = "disp_col_low"
         ELSE c' = 0 /\ pc' = "disp_row_off"
    /\ UNCHANGED <<world, nextWorld, lastTime, paused, step, rowPin, colPin, clock, time,
                   neighbors, r, attached, iter, toggles, mode, world0, lastTime0,
                   scan, since>>

\* line 96: digitalWrite(col[c], HIGH); then c++
DispColHigh ==
    /\ pc = "disp_col_high"
    /\ colPin' = [colPin EXCEPT ![c] = "HIGH"]
    /\ IF c + 1 < COLS
         THEN c' = c + 1 /\ pc' = "disp_col_low"
         ELSE c' = 0 /\ pc' = "disp_row_off"
    /\ scan' = Shown(scan, rowPin, colPin')
    /\ UNCHANGED <<world, nextWorld, lastTime, paused, step, rowPin, clock, time,
                   neighbors, r, attached, iter, toggles, mode, world0, lastTime0, since>>

\* variant: line 99 left out, the row stays HIGH
DispRowOff_skip ==
    /\ pc = "disp_row_off"
    /\ IF r + 1 < ROWS
         THEN r' = r + 1 /\ pc' = "disp_row_on"
         ELSE r' = 0 /\ pc' = "delay"
    /\ UNCHANGED <<world, nextWorld, lastTime, paused, step, rowPin, colPin, clock, time,
                   neighbors, c, attached, iter, toggles, mode, world0, lastTime0,
                   scan, since>>

\* line 99: digitalWrite(row[r], LOW); then r++; after row 7 dispWorld returns
DispRowOff ==
    /\ pc = "disp_row_off"
    /\ rowPin' = [rowPin EXCEPT ![r] = "LOW"]
    /\ IF r + 1 < ROWS
         THEN r' = r + 1 /\ pc' = "disp_row_on"
         ELSE r' = 0 /\ pc' = "delay"
    /\ scan' = Shown(scan, rowPin', colPin)
    /\ UNCHANGED <<world, nextWorld, lastTime, paused, step, colPin, clock, time,
                   neighbors, c, attached, iter, toggles, mode, world0, lastTime0, since>>

\* ------------------------------------------------------------------------
\* Interrupt handlers (lines 68-78); each runs to completion between two
\* statements of the main program, once attached
\* ------------------------------------------------------------------------
\* where in the main program an interrupt strikes
IrqMode ==
    CASE pc \in {"update_compute", "update_commit"} -> "irq_update"
      [] pc \in {"disp_row_on", "disp_col_low", "disp_col_high", "disp_row_off"} -> "irq_disp"
      [] pc \in {"setup_attach", "setup_pins", "setup_fill"} -> "setup"
      [] OTHER -> "irq_loop"

\* variant: "paused = true;"
togglePause_set ==
    /\ attached
    /\ toggles < MaxToggles
    /\ paused' = TRUE
    /\ toggles' = toggles + 1
    /\ mode' = IrqMode
    /\ UNCHANGED <<world, nextWorld, lastTime, step, rowPin, colPin, clock, time,
                   neighbors, pc, r, c, attached, iter, world0, lastTime0, scan, since>>

\* line 71: paused = !paused;
togglePause ==
    /\ attached
    /\ toggles < MaxToggles
    /\ paused' = ~paused
    /\ toggles' = toggles + 1
    /\ mode' = IrqMode
    /\ UNCHANGED <<world, nextWorld, lastTime, step, rowPin, colPin, clock, time,
                   neighbors, pc, r, c, attached, iter, world0, lastTime0, scan, since>>

\* variant: "step = true;" without the test of paused
setStep_unguarded ==
    /\ attached
    /\ step' = TRUE
    /\ mode' = IrqMode
    /\ UNCHANGED <<world, nextWorld, lastTime, paused, rowPin, colPin, clock, time,
                   neighbors, pc, r, c, attached, iter, toggles, world0, lastTime0, scan, since>>

\* variant: the handler also forces the tick by clearing lastTime
setStep_forcesTick ==
    /\ attached
    /\ IF paused
         THEN /\ step' = TRUE
              /\ lastTime' = U32(0, 0)
              /\ mode' = IrqMode
         ELSE UNCHANGED <<step, lastTime, mode>>
    /\ UNCHANGED <<world, nextWorld, paused, rowPin, colPin, clock, time,
                   neighbors, pc, r, c, attached, iter, toggles, world0, lastTime0, scan, since>>

\* lines 76-77: if (paused) step = true;
setStep ==
    /\ attached
    /\ IF paused
         THEN /\ step' = TRUE
              /\ mode' = IrqMode
         ELSE UNCHANGED <<step, mode>>
    /\ UNCHANGED <<world, nextWorld, lastTime, paused, rowPin, colPin, clock, time,
                   neighbors, pc, r, c, attached, iter, toggles, world0, lastTime0, scan, since>>

\* ------------------------------------------------------------------------
\* The program
\* ------------------------------------------------------------------------
Next ==
    \/ SetupAttach
    \/ SetupPin
    \/ SetupFill
    \/ LoopSample
    \/ LoopTick
    \/ LoopSkip
    \/ UpdateCompute
    \/ UpdateCommit
    \/ DispRowOn
    \/ DispColLow
    \/ DispColHigh
    \/ DispRowOff
    \/ Delay
    \/ togglePause
    \/ setStep

Spec == Init /\ [][Next]_vars

TypeOK ==
    /\ world \in Grid
    /\ nextWorld \in Grid
    /\ paused \in BOOLEAN
    /\ step \in BOOLEAN
    /\ rowPin \in [RowIdx -> PinLevel]
    /\ colPin \in [ColIdx -> PinLevel]
    /\ neighbors \in 0 .. 8
    /\ r \in RowIdx
    /\ c \in ColIdx
    /\ iter \in 0 .. MaxIter
    /\ toggles \in 0 .. MaxToggles
    /\ scan.lit \subseteq RowIdx \X ColIdx
    /\ scan.calls \in Nat
    /\ since \in Nat

\* ------------------------------------------------------------------------
\* The loop running forever: millis() is sampled at a few values on both
\* sides of its wrap-around, and between two samples it has advanced by at
\* least the delay(5) and by no more than 2^32 - 1000 ms
\* ------------------------------------------------------------------------
LiveClocks ==
    { U32(0, PERIOD \div 2),
      U32(LIMB - 1, LIMB - PERIOD \div 2), U32(LIMB - 1, LIMB - DELAY_MS) }

BlinkerCells == {<<3, 2>>, <<3, 3>>, <<3, 4>>}
LiveWorlds == {GridOf(BlinkerCells)}

\* since is followed up to this value only
SinceCap == 2 * PERIOD

\* since after millis() has advanced by a
Elapse(s, a) == IF a[1] > 0 \/ s + a[2] > SinceCap THEN SinceCap ELSE s + a[2]

\* the state setup() leaves (lines 28-54)
LiveInit ==
    /\ world \in LiveWorlds
    /\ nextWorld = AllDead
    /\ lastTime = U32(0, 0)
    /\ paused = FALSE
    /\ step = FALSE
    /\ rowPin = [i \in RowIdx |-> "LOW"]
    /\ colPin = [j \in ColIdx |-> "HIGH"]
    /\ clock = U32(0, 0)
    /\ time = U32(0, 0)
    /\ neighbors = 0
    /\ pc = "loop"
    /\ r = 0
    /\ c = 0
    /\ attached = TRUE
    /\ iter = 0
    /\ toggles = 0
    /\ mode = "setup"
    /\ world0 = AllDead
    /\ lastTime0 = U32(0, 0)
    /\ scan = NoScan
    /\ since = 0

\* line 65: delay(5); the iteration ends, millis() has moved on to t
LiveDelay ==
    /\ pc = "delay"
    /\ \E t \in LiveClocks :
          /\ Geq32(Sub32(t, clock), DELAY_MS)
          /\ Geq32(Sub32(clock, t), PERIOD)
          /\ clock' = t
          /\ since' = Elapse(since, Sub32(t, clock))
    /\ pc' = "loop"
    /\ UNCHANGED <<world, nextWorld, lastTime, paused, step, rowPin, colPin, time,
                   neighbors, r, c, attached, iter, toggles, mode, world0, lastTime0, scan>>

\* the main program: loop() over and over
LiveMain ==
    \/ LoopSample
    \/ LoopTick
    \/ LoopSkip
    \/ UpdateCompute
    \/ UpdateCommit
    \/ DispRowOn
    \/ DispColLow
    \/ DispColHigh
    \/ DispRowOff
    \/ LiveDelay

LiveNext ==
    \/ LiveMain
    \/ togglePause
    \/ setStep

\* the processor always goes on with the main program: a handler returns
\* (lines 72, 78) and nothing in loop() waits for anything but delay(5)
SpecLive == LiveInit /\ [][LiveNext]_vars /\ WF_vars(LiveMain)

\* ------------------------------------------------------------------------
\* countNeighbors and the rule on their own: every 3x3 neighbourhood, placed
\* in the interior, on two edges and on the four corners of the torus
\* ------------------------------------------------------------------------
Square3 == {<<dr, dc>> : dr \in {-1, 0, 1}, dc \in {-1, 0, 1}}
FnCentres == {<<0, 0>>, <<0, 7>>, <<7, 0>>, <<7, 7>>, <<3, 4>>, <<0, 3>>, <<4, 7>>}
FnWorlds == {GridOf(Shift(P, ctr[1], ctr[2])) : P \in SUBSET Square3, ctr \in FnCentres}

FnInit ==
    /\ world \in FnWorlds
    /\ nextWorld = AllDead
    /\ lastTime = U32(0, 0)
    /\ paused = FALSE
    /\ step = FALSE
    /\ rowPin = [i \in RowIdx |-> "LOW"]
    /\ colPin = [j \in ColIdx |-> "HIGH"]
    /\ clock = U32(0, 0)
    /\ time = U32(0, 0)
    /\ neighbors = 0
    /\ pc = "fn_call"
    /\ r = 0
    /\ c = 0
    /\ attached = FALSE
    /\ iter = 0
    /\ toggles = 0
    /\ mode = "running"
    /\ world0 = world
    /\ lastTime0 = U32(0, 0)
    /\ scan = NoScan
    /\ since = 0

\* line 140: a call countNeighbors(rr, cc)
FnCount ==
    /\ pc = "fn_call"
    /\ \E rr \in RowIdx, cc \in ColIdx :
          /\ r' = rr
          /\ c' = cc
          /\ neighbors' = countNeighbors(world, rr, cc)
    /\ pc' = "fn_counted"
    /\ UNCHANGED <<world, nextWorld, lastTime, paused, step, rowPin, colPin, clock,
                   time, attached, iter, toggles, mode, world0, lastTime0, scan, since>>

\* lines 140-150: the switch on that count, for cell (r, c)
FnRule ==
    /\ pc = "fn_counted"
    /\ nextWorld' = [nextWorld EXCEPT ![r][c] = rule(world[r][c], neighbors)]
    /\ pc' = "fn_ruled"
    /\ UNCHANGED <<world, lastTime, paused, step, rowPin, colPin, clock, time,
                   neighbors, r, c, attached, iter, toggles, mode, world0, lastTime0, scan, since>>

FnNext ==
    \/ FnCount
    \/ FnRule

SpecFn == FnInit /\ [][FnNext]_vars

\* ------------------------------------------------------------------------
\* Reference definitions the claims are stated with
\* ------------------------------------------------------------------------
\* the eight cells ((r+dr) mod 8, (c+dc) mod 8), (dr, dc) # (0, 0)
TorusNeighbours(rr, cc) ==
    {<<(rr + d[1]) % ROWS, (cc + d[2]) % COLS>> : d \in Square3 \ {<<0, 0>>}}

TorusCount(w, rr, cc) == Cardinality({p \in TorusNeighbours(rr, cc) : w[p[1]][p[2]]})

\* the four rules of the header comment (lines 4-7)
Canonical(alive, n) ==
    IF alive
      THEN IF n < 2 THEN FALSE            \* 1. underpopulation
           ELSE IF n \in {2, 3} THEN TRUE \* 2. lives on
           ELSE FALSE                     \* 3. overpopulation
      ELSE n = 3                          \* 4. reproduction

\* one Game of Life generation on the torus
Generation(w) ==
    [i \in RowIdx |-> [j \in ColIdx |-> Canonical(w[i][j], TorusCount(w, i, j))]]

\* what updateWorld computes for cell (i, j) from the grid w alone
RuleAt(w, i, j) == rule(w[i][j], countNeighbors(w, i, j))

\* ------------------------------------------------------------------------
\* updateWorld() as a whole (lines 131-158), applied again and again to a
\* glider or a block placed anywhere on the torus
\* ------------------------------------------------------------------------
updateWorld(w) == [i \in RowIdx |-> [j \in ColIdx |-> RuleAt(w, i, j)]]

Placements == RowIdx \X ColIdx
\* the four phases of the glider that travels towards growing row and column
GliderPhases ==
    { GliderCells,
      {<<1, 0>>, <<1, 2>>, <<2, 1>>, <<2, 2>>, <<3, 1>>},
      {<<1, 2>>, <<2, 0>>, <<2, 2>>, <<3, 1>>, <<3, 2>>},
      {<<1, 1>>, <<2, 2>>, <<2, 3>>, <<3, 1>>, <<3, 2>>} }
GliderWorlds == {GridOf(Shift(G, p[1], p[2])) : G \in GliderPhases, p \in Placements}
BlockWorlds == {GridOf(Shift(BlockCells, p[1], p[2])) : p \in Placements}

GenInit ==
    /\ world \in GliderWorlds \cup BlockWorlds
    /\ nextWorld = AllDead
    /\ lastTime = U32(0, 0)
    /\ paused = FALSE
    /\ step = FALSE
    /\ rowPin = [i \in RowIdx |-> "LOW"]
    /\ colPin = [j \in ColIdx |-> "HIGH"]
    /\ clock = U32(0, 0)
    /\ time = U32(0, 0)
    /\ neighbors = 0
    /\ pc = "gen_call"
    /\ r = 0
    /\ c = 0
    /\ attached = FALSE
    /\ iter = 0
    /\ toggles = 0
    /\ mode = "running"
    /\ world0 = world
    /\ lastTime0 = U32(0, 0)
    /\ scan = NoScan
    /\ since = 0

\* line 62: one call updateWorld(); iter counts the calls, world0 keeps the input
GenStep ==
    /\ pc = "gen_call"
    /\ iter < MaxGen
    /\ nextWorld' = updateWorld(world)
    /\ world' = nextWorld'
    /\ iter' = iter + 1
    /\ UNCHANGED <<lastTime, paused, step, rowPin, colPin, clock, time, neighbors, pc,
                   r, c, attached, toggles, mode, world0, lastTime0, scan, since>>

GenNext == GenStep

SpecGen == GenInit /\ [][GenNext]_vars

\* (i, j) comes before (rr, cc) in row-major order
Before(i, j, rr, cc) == i < rr \/ (i = rr /\ j < cc)

Flip(w, rr, cc) == [w EXCEPT ![rr][cc] = ~w[rr][cc]]

\* no interrupt has fired since this loop() iteration sampled millis()
Undisturbed == mode \in {"running", "frozen", "step"}

InDisp == pc \in {"disp_row_on", "disp_col_low", "disp_col_high", "disp_row_off"}

InSetup == pc \in {"setup_attach", "setup_pins", "setup_fill"}

LiveCells(w) == {p \in RowIdx \X ColIdx : w[p[1]][p[2]]}

\* the off configuration: every row line LOW, every column line HIGH
AllOff == (\A i \in RowIdx : rowPin[i] = "LOW") /\ (\A j \in ColIdx : colPin[j] = "HIGH")

\* between line 90 and line 99 of one row of the scan
RowActive == pc \in {"disp_col_low", "disp_col_high", "disp_row_off"}

\* a dispWorld() call has executed its first statement and not yet returned
Scanning == RowActive \/ (pc = "disp_row_on" /\ r > 0)

\* ------------------------------------------------------------------------
\* Claims
\* ------------------------------------------------------------------------

\* C1 (as claimed): pause semantics. A loop() iteration that starts with
\* paused true and no step pending, and during which no interrupt fires,
\* leaves world as it found it.
C1_PausedFreezesWorld == mode = "frozen" => world = world0

\* C2 (as claimed): the step flag is one-shot. A loop() iteration in which
\* time - lastTime >= 1000 (and during which no interrupt fires) ends with
\* step false and lastTime equal to the sampled time.
C2_TickClearsStep ==
    (pc = "delay" /\ Undisturbed /\ TickDue(time, lastTime0))
        => (step = FALSE /\ lastTime = time)

\* C3: running tick. At the end of a loop() iteration executed with paused
\* false: if time - lastTime >= 1000 held at the check, world is exactly one
\* Game of Life generation after the world the iteration started with and
\* lastTime is the sampled time; otherwise world and lastTime are unchanged.
C3_RunningTick ==
    (pc = "delay" /\ mode = "running")
        => IF TickDue(time, lastTime0)
             THEN world = Generation(world0) /\ lastTime = time
             ELSE world = world0 /\ lastTime = lastTime0

C3_Witness ==
    /\ pc = "delay"
    /\ mode = "running"
    /\ TickDue(time, lastTime0)
    /\ world # world0
    /\ Generation(world) # world

\* C4: setStep guard. A setStep firing, at whatever point of the main
\* program, makes step true when paused is true, and leaves step and every
\* other variable of the program unchanged when paused is false.
C4_SetStepGuard ==
    [][setStep => /\ paused => step'
                  /\ ~paused => UNCHANGED <<world, nextWorld, lastTime, paused, step,
                                            rowPin, colPin, time, neighbors, pc, r, c>>]_vars

C4_Witness ==
    /\ pc = "update_commit"
    /\ mode = "irq_update"
    /\ paused
    /\ step

\* C5: paused changes in a step exactly when the step is a togglePause
\* firing, each firing negates it, and after k firings paused is true
\* exactly when k is odd.
C5_PausedOnlyToggled ==
    [][/\ (paused' # paused) <=> (toggles' = toggles + 1)
       /\ paused' = (toggles' % 2 = 1)
       /\ (paused' # paused) => togglePause]_vars

C5_Witness ==
    /\ toggles = 2
    /\ ~paused
    /\ pc = "disp_col_high"
    /\ mode = "irq_disp"

\* C6: frame of the interrupt handlers. A firing of togglePause or setStep at
\* any point of the main program leaves world, nextWorld, lastTime and the
\* 16 pin levels unchanged; togglePause leaves step, setStep leaves paused.
C6_HandlersFrame ==
    [][/\ togglePause => UNCHANGED <<world, nextWorld, lastTime, rowPin, colPin, step>>
       /\ setStep => UNCHANGED <<world, nextWorld, lastTime, rowPin, colPin, paused>>]_vars

C6_Witness ==
    /\ mode = "irq_update"
    /\ pc = "update_commit"
    /\ step
    /\ world # world0
    /\ world # nextWorld

\* C7: countNeighbors is toroidal. The value returned by countNeighbors(r, c)
\* is the number of live cells among the eight cells ((r+dr) mod 8,
\* (c+dc) mod 8), and every index it reads lies in 0..7.
C7_Toroidal ==
    pc = "fn_counted"
        => /\ neighbors = TorusCount(world, r, c)
           /\ \A k \in 1 .. Len(ReadIndices(r, c)) :
                 ReadIndices(r, c)[k] \in RowIdx \X ColIdx

C7_Witness ==
    /\ pc = "fn_counted"
    /\ r = 0
    /\ c = 0
    /\ world[7][7] /\ world[7][0] /\ world[0][7]
    /\ neighbors = 8

\* C8: countNeighbors(r, c) is in 0..8 and does not depend on world[r][c]:
\* with only cell (r, c) flipped it returns the same value.
C8_ExcludesSelf ==
    pc = "fn_counted"
        => /\ neighbors \in 0 .. 8
           /\ countNeighbors(Flip(world, r, c), r, c) = neighbors

C8_Witness ==
    /\ pc = "fn_counted"
    /\ world[r][c]
    /\ neighbors = 8
    /\ r = 7
    /\ c = 7

\* C9: rule equivalence. For every cell state and every count n in 0..8 the
\* three-case switch of updateWorld gives the next state of the four
\* canonical rules; so does every application of it to a counted cell.
C9_RuleEquivalence ==
    /\ \A alive \in BOOLEAN, n \in 0 .. 8 : rule(alive, n) = Canonical(alive, n)
    /\ pc = "fn_ruled" => nextWorld[r][c] = Canonical(world[r][c], neighbors)

C9_Witness ==
    /\ pc = "fn_ruled"
    /\ ~world[r][c]
    /\ neighbors = 3
    /\ nextWorld[r][c]

\* C10: double buffering. While updateWorld computes, world is still the
\* grid it was called with and the cell just computed is the rule applied to
\* that grid; when the commit starts, nextWorld is the rule applied to that
\* grid at all 64 cells; while it commits, world holds nextWorld before
\* (r, c) and the old grid from (r, c) on; when updateWorld returns, every
\* cell of world is the rule applied to the old grid.
C10_DoubleBuffer ==
    /\ pc = "update_compute"
         => /\ world = world0
            /\ c > 0 => nextWorld[r][c - 1] = RuleAt(world0, r, c - 1)
            /\ (c = 0 /\ r > 0) => nextWorld[r - 1][COLS - 1] = RuleAt(world0, r - 1, COLS - 1)
    /\ pc = "update_commit"
         => /\ \A i \in RowIdx, j \in ColIdx :
                 world[i][j] = IF Before(i, j, r, c) THEN nextWorld[i][j] ELSE world0[i][j]
            /\ (r = 0 /\ c = 0)
                 => \A i \in RowIdx, j \in ColIdx : nextWorld[i][j] = RuleAt(world0, i, j)
    /\ (pc = "disp_row_on" /\ r = 0 /\ TickDue(time, lastTime0))
         => \A i \in RowIdx, j \in ColIdx : world[i][j] = RuleAt(world0, i, j)

C10_Witness ==
    /\ pc = "disp_row_on"
    /\ r = 0
    /\ TickDue(time, lastTime0)
    /\ world # world0
    /\ \E i \in RowIdx, j \in ColIdx :
          /\ world0[i][j] # RuleAt(world0, i, j)
          /\ countNeighbors(world, i, j) # countNeighbors(world0, i, j)

\* C11: display consistency. Whenever dispWorld runs, world is one fully
\* computed generation: the grid the iteration started with when no tick
\* was due, and otherwise the complete buffer nextWorld, which is the rule
\* applied to that grid at all 64 cells; world is never a partly committed
\* mix, whatever interrupts fire.
C11_DisplayConsistent ==
    InDisp
        => IF TickDue(time, lastTime0)
             THEN /\ world = nextWorld
                  /\ (pc = "disp_row_on" /\ r = 0)
                       => \A i \in RowIdx, j \in ColIdx : nextWorld[i][j] = RuleAt(world0, i, j)
             ELSE world = world0

C11_Witness ==
    /\ pc = "disp_col_low"
    /\ r = 3
    /\ TickDue(time, lastTime0)
    /\ world # world0
    /\ mode = "irq_update"

\* C14: scan-out off-state invariant. From the end of setup on, at most one
\* row line is HIGH; a column line is LOW only between lines 94 and 96 for
\* the column being driven, while the row being scanned is HIGH; at the start
\* and end of every dispWorld call, between two rows and everywhere outside
\* dispWorld all rows are LOW and all columns HIGH.
C14_OffState ==
    ~InSetup
        => /\ Cardinality({i \in RowIdx : rowPin[i] = "HIGH"}) <= 1
           /\ \A j \in ColIdx :
                 colPin[j] = "LOW" => (pc = "disp_col_high" /\ j = c /\ rowPin[r] = "HIGH")
           /\ pc \in {"loop", "check", "update_compute", "update_commit", "disp_row_on", "delay"}
                 => AllOff

C14_Witness ==
    /\ pc = "disp_col_high"
    /\ r = 7
    /\ colPin[c] = "LOW"
    /\ rowPin[r] = "HIGH"

\* C15: scan-out faithfulness. During a dispWorld call only LEDs of live
\* cells are ever lit, the rows are activated in the order 0, 1, ..., each
\* once, and while row r is active every column other than the one being
\* driven is HIGH; when the call has returned, the LEDs that were lit at
\* some instant are exactly the live cells and the rows activated 0..7.
C15_Faithful ==
    /\ (Scanning \/ pc = "delay")
          => /\ scan.lit \subseteq LiveCells(world)
             /\ Lit(rowPin, colPin) \subseteq LiveCells(world)
             /\ scan.rows = [k \in 1 .. Len(scan.rows) |-> k - 1]
    /\ RowActive
          => /\ scan.rows[Len(scan.rows)] = r
             /\ rowPin[r] = "HIGH"
             /\ \A j \in ColIdx \ {c} : colPin[j] = "HIGH"
    /\ pc = "delay"
          => /\ scan.lit = LiveCells(world)
             /\ Len(scan.rows) = ROWS

C15_Witness ==
    /\ pc = "delay"
    /\ scan.lit = LiveCells(world)
    /\ Cardinality(scan.lit) >= 5
    /\ Cardinality(scan.lit) < ROWS * COLS

\* C16: every loop() iteration calls dispWorld exactly once, after the tick
\* check, whatever paused, step and the elapsed time are: no call has been
\* made at the check or during updateWorld, exactly one when the iteration
\* reaches delay(5); and no statement of dispWorld changes world, paused,
\* step or lastTime.
C16_DispOncePerIteration ==
    [][/\ (DispRowOn \/ DispColLow \/ DispColHigh \/ DispRowOff)
            => UNCHANGED <<world, paused, step, lastTime>>
       /\ pc' \in {"check", "update_compute", "update_commit"} => scan'.calls = 0
       /\ pc' = "delay" => scan'.calls = 1]_vars

C16_Witness ==
    /\ pc = "delay"
    /\ scan.calls = 1
    /\ paused
    /\ step
    /\ ~TickDue(time, lastTime0)

\* C12: glider on the torus. From a grid whose only live cells are the
\* glider, placed anywhere on the 8x8 torus, four successive updateWorld
\* calls give the grid whose live cells are exactly the glider's cells
\* translated by (+1, +1) modulo 8.
C12_Glider ==
    (world0 \in GliderWorlds /\ iter = 4)
        => world = GridOf(Shift(LiveCells(world0), 1, 1))

C12_Witness ==
    /\ iter = 4
    /\ world0 = GridOf(Shift(GliderCells, 6, 6))
    /\ world = GridOf(Shift(GliderCells, 7, 7))
    /\ world # world0

\* C13: block still life. From a grid whose only live cells are a 2x2 block,
\* placed anywhere on the 8x8 torus (also across an edge or a corner), every
\* updateWorld call returns the grid it was given.
C13_Block ==
    world0 \in BlockWorlds => (world = world0 /\ (iter > 0 => nextWorld = world0))

C13_Witness ==
    /\ world0 = GridOf(Shift(BlockCells, 7, 7))
    /\ iter = 4
    /\ world = world0
    /\ nextWorld = world0

\* the last statement of updateWorld: a generation has been committed
Advance == UpdateCommit /\ pc' = "disp_row_on"

\* C17: progress. The main program can always take a step (no terminal or
\* blocked state); whatever interrupts fire, it completes loop() iterations
\* again and again; and in every run in which the system ends up staying in
\* the Running state, generations are advanced again and again.
C17_Progress ==
    /\ [](ENABLED <<LiveMain>>_vars)
    /\ []<>(pc = "delay")
    /\ (<>[](~paused)) => []<><<Advance>>_vars

C17_Witness ==
    /\ pc = "disp_row_on"
    /\ r = 0
    /\ TickDue(time, lastTime0)
    /\ ~paused
    /\ toggles = 2
    /\ time[1] = 0
    /\ lastTime0[1] = LIMB - 1
    /\ world # world0

\* C18: clock wrap-around. The tick fires in a loop() iteration exactly when
\* millis() has really advanced by at least 1000 ms since the sample kept in
\* lastTime, also when millis() has wrapped past 2^32 - 1 in between (fewer
\* than 2^32 ms separating the two samples).
C18_WrapSafe ==
    [][/\ LoopTick => since >= PERIOD
       /\ LoopSkip => since < PERIOD]_vars

C18_Witness ==
    /\ pc = "update_compute"
    /\ lastTime0[1] = LIMB - 1
    /\ lastTime[1] = 0
    /\ time = lastTime

====
